---- MODULE Spec2Model ----
(***************************************************************************)
(* Model of scripts/get_cmake_cuda_archs.py: one run of main(), from the   *)
(* command line to the process exit.  Strings are sequences of one-        *)
(* character strings, so that prefixes, suffixes, case conversion and      *)
(* ordering are computed as the Python code computes them.                 *)
(***************************************************************************)
EXTENDS Integers, Sequences, FiniteSets, TLC

(***************************************************************************)
(* Bound of the model: the number of distinct lines `nvcc -code-ls` prints *)
(***************************************************************************)
MaxLines == 3

(***************************************************************************)
(* Characters and strings                                                  *)
(***************************************************************************)
\* the characters used by the model, in code point order (Python compares
\* strings by code point)
CharOrder ==
  << " ", ",", "-", "0", "1", "2", "3", "4", "5", "6", "7", "8", "9", ";",
     "A", "D", "L", "M", "N", "_",
     "a", "b", "c", "d", "e", "g", "h", "i", "j", "l", "m", "n", "o", "p", "r",
     "s", "t", "u", "v", "x" >>

Ord(c) == CHOOSE i \in 1..Len(CharOrder) : CharOrder[i] = c

IsDigit(c) == c \in {"0", "1", "2", "3", "4", "5", "6", "7", "8", "9"}

DigitVal(c) == Ord(c) - Ord("0")

IsUpper(c) == c \in {"A", "D", "L", "M", "N"}

IsAlpha(c) == Ord(c) >= Ord("a") \/ IsUpper(c)

\* str.lower() on one character
LowerChar(c) ==
  CASE c = "A" -> "a"
    [] c = "D" -> "d"
    [] c = "L" -> "l"
    [] c = "M" -> "m"
    [] c = "N" -> "n"
    [] OTHER -> c

\* str.lower()
Lower(s) == [i \in 1..Len(s) |-> LowerChar(s[i])]

\* \s of the regular expressions and the characters str.strip() removes
IsSpace(c) == c = " "

RECURSIVE LStrip(_)
LStrip(s) == IF s # << >> /\ IsSpace(Head(s)) THEN LStrip(Tail(s)) ELSE s

RECURSIVE RStrip(_)
RStrip(s) ==
  IF s # << >> /\ IsSpace(s[Len(s)]) THEN RStrip(SubSeq(s, 1, Len(s) - 1)) ELSE s

\* str.strip()
Strip(s) == LStrip(RStrip(s))

\* str.startswith(p)
StartsWith(s, p) == Len(s) >= Len(p) /\ SubSeq(s, 1, Len(p)) = p

EndsWith(s, p) == Len(s) >= Len(p) /\ SubSeq(s, Len(s) - Len(p) + 1, Len(s)) = p

\* s < t in Python's string order
RECURSIVE StrLess(_, _)
StrLess(s, t) ==
  IF t = << >> THEN FALSE
  ELSE IF s = << >> THEN TRUE
  ELSE IF Head(s) # Head(t) THEN Ord(Head(s)) < Ord(Head(t))
  ELSE StrLess(Tail(s), Tail(t))

\* sep.join(parts)
RECURSIVE Join(_, _)
Join(parts, sep) ==
  IF parts = << >> THEN << >>
  ELSE IF Len(parts) = 1 THEN parts[1]
  ELSE parts[1] \o sep \o Join(Tail(parts), sep)

Range(f) == {f[i] : i \in DOMAIN f}

\* the literals of the script
SmPrefix == << "s", "m", "_" >>
RealSuffix == << "-", "r", "e", "a", "l" >>
VirtualSuffix == << "-", "v", "i", "r", "t", "u", "a", "l" >>
NativeStr == << "n", "a", "t", "i", "v", "e" >>
AllStr == << "a", "l", "l" >>
AllMajorStr == << "a", "l", "l", "-", "m", "a", "j", "o", "r" >>
Semicolon == << ";" >>

(***************************************************************************)
(* Regular expressions of the script                                       *)
(***************************************************************************)
\* length of the match of \d+ at the start of s; 0 when there is no match
RECURSIVE DigitPrefixLen(_)
DigitPrefixLen(s) ==
  IF s # << >> /\ IsDigit(Head(s)) THEN 1 + DigitPrefixLen(Tail(s)) ELSE 0

\* int() of a string of digits
RECURSIVE ToInt(_)
ToInt(d) ==
  IF d = << >> THEN 0
  ELSE 10 * ToInt(SubSeq(d, 1, Len(d) - 1)) + DigitVal(d[Len(d)])

\* int(re.match(r"\d+", arch).group()), defined when the match exists
NumericPrefix(arch) == ToInt(SubSeq(arch, 1, DigitPrefixLen(arch)))

\* re.match(r"\d+", arch) is not None
HasNumericPrefix(arch) == DigitPrefixLen(arch) > 0

\* re.search(r"[a-zA-Z]$", arch)
EndsInLetter(arch) == arch # << >> /\ IsAlpha(arch[Len(arch)])

\* re.match(r"^\d+0$", arch)
IsMajorArch(arch) ==
  /\ Len(arch) >= 2
  /\ \A i \in 1..Len(arch) : IsDigit(arch[i])
  /\ arch[Len(arch)] = "0"

(***************************************************************************)
(* get_arch_sort_key and sorted(..., key=get_arch_sort_key)                *)
(***************************************************************************)
get_arch_sort_key(arch) ==
  IF ~HasNumericPrefix(arch) THEN << 0, arch >> ELSE << NumericPrefix(arch), arch >>

\* k1 < k2 for two (int, str) tuples
KeyLess(k1, k2) == k1[1] < k2[1] \/ (k1[1] = k2[1] /\ StrLess(k1[2], k2[2]))

\* insertion of x after the elements whose key is not greater (stable)
RECURSIVE InsertSorted(_, _)
InsertSorted(x, s) ==
  IF s = << >> THEN << x >>
  ELSE IF KeyLess(get_arch_sort_key(x), get_arch_sort_key(Head(s)))
       THEN << x >> \o s
       ELSE << Head(s) >> \o InsertSorted(x, Tail(s))

\* sorted(list, key=get_arch_sort_key)
RECURSIVE SortedArchs(_)
SortedArchs(s) ==
  IF s = << >> THEN << >>
  ELSE InsertSorted(s[Len(s)], SortedArchs(SubSeq(s, 1, Len(s) - 1)))

\* sorted(set, key=get_arch_sort_key); the keys of distinct strings differ,
\* so the iteration order of the set does not show in the result
RECURSIVE SortedArchSet(_)
SortedArchSet(S) ==
  IF S = {} THEN << >>
  ELSE LET m == CHOOSE x \in S :
                  \A y \in S \ {x} : KeyLess(get_arch_sort_key(x), get_arch_sort_key(y))
       IN << m >> \o SortedArchSet(S \ {m})

(***************************************************************************)
(* The pure functions of the script                                        *)
(***************************************************************************)
\* Optional[int] is a sequence of length 0 (None) or 1
NoneValue == << >>

\* the body of the parsing loop of get_nvcc_archs: the set raw_archs
ParseCodeLs(lines) ==
  {SubSeq(Strip(l), 4, Len(Strip(l))) : l \in {x \in lines : StartsWith(Strip(x), SmPrefix)}}

\* one piece per separator run [\s,]+ of re.split, empty pieces included
IsSep(c) == IsSpace(c) \/ c = ","

RECURSIVE SplitRec(_, _, _, _)
SplitRec(s, i, cur, acc) ==
  IF i > Len(s) THEN Append(acc, cur)
  ELSE IF IsSep(s[i])
       THEN IF i > 1 /\ IsSep(s[i - 1])
            THEN SplitRec(s, i + 1, cur, acc)
            ELSE SplitRec(s, i + 1, << >>, Append(acc, cur))
       ELSE SplitRec(s, i + 1, Append(cur, s[i]), acc)

ReSplit(s) == SplitRec(s, 1, << >>, << >>)

parse_requested_archs(req_str) ==
  IF req_str = << >> THEN << >>
  ELSE SelectSeq(ReSplit(Strip(req_str)), LAMBDA t : t # << >>)

\* min_arch is None or min_arch <= 0
MinArchDisabled(min_arch) == min_arch = NoneValue \/ min_arch[1] <= 0

\* re.match(r"(\d+)", arch) returns None for some arch of the list, and
\* .group(1) raises AttributeError
MinArchRaises(archs, min_arch) ==
  /\ ~MinArchDisabled(min_arch)
  /\ \E i \in 1..Len(archs) : ~HasNumericPrefix(archs[i])

\* the value filter_archs_with_min_arch returns when it does not raise
filter_archs_with_min_arch(archs, min_arch) ==
  IF MinArchDisabled(min_arch) THEN archs
  ELSE SelectSeq(archs, LAMBDA arch : NumericPrefix(arch) >= min_arch[1])

igpu_archs ==
  { << "7", "2" >>, << "8", "7" >>, << "1", "0", "1" >>, << "1", "0", "1", "a" >> }

DesktopNames ==
  { << "x", "8", "6", "_", "6", "4" >>, << "a", "m", "d", "6", "4" >> }

\* the platform filter comparing the machine name as it is
filter_archs_for_platform_CaseSensitive(archs, machine_name) ==
  IF machine_name \notin DesktopNames THEN archs
  ELSE SelectSeq(archs, LAMBDA arch : arch \notin igpu_archs)

filter_archs_for_platform(archs, machine_name) ==
  IF Lower(machine_name) \notin DesktopNames THEN archs
  ELSE SelectSeq(archs, LAMBDA arch : arch \notin igpu_archs)

\* the major filter with the pattern \d+0 not anchored at the end
filter_major_archs_Unanchored(archs) ==
  SelectSeq(archs, LAMBDA arch :
              \E n \in 2..DigitPrefixLen(arch) : arch[n] = "0")

filter_major_archs(archs) == SelectSeq(archs, IsMajorArch)

\* the checks with the platform check before the minimum check
CheckArch_PlatformFirst(arch, nvcc_supported_set, min_filtered_set, platform_filtered_set) ==
  IF arch \notin nvcc_supported_set THEN "not_supported"
  ELSE IF arch \notin platform_filtered_set THEN "igpu"
  ELSE IF arch \notin min_filtered_set THEN "below_minimum"
  ELSE "ok"

\* the checks without the platform check
CheckArch_NoPlatform(arch, nvcc_supported_set, min_filtered_set, platform_filtered_set) ==
  IF arch \notin nvcc_supported_set THEN "not_supported"
  ELSE IF arch \notin min_filtered_set THEN "below_minimum"
  ELSE "ok"

\* the three checks of the loop body of validate_user_archs on one token
CheckArch(arch, nvcc_supported_set, min_filtered_set, platform_filtered_set) ==
  IF arch \notin nvcc_supported_set THEN "not_supported"
  ELSE IF arch \notin min_filtered_set THEN "below_minimum"
  ELSE IF arch \notin platform_filtered_set THEN "igpu"
  ELSE "ok"

\* the loop over reversed(sorted_archs): the result is "" when it finds nothing
PtxBaseScan(sorted_archs) ==
  LET plain == {i \in 1..Len(sorted_archs) : ~EndsInLetter(sorted_archs[i])}
  IN IF plain = {} THEN << >>
     ELSE sorted_archs[CHOOSE i \in plain : \A j \in plain : j <= i]

PtxTargetBase(sorted_archs) ==
  IF PtxBaseScan(sorted_archs) = << >> THEN sorted_archs[Len(sorted_archs)]
  ELSE PtxBaseScan(sorted_archs)

\* the formatter without the sort
generate_sass_ptx_arch_list_Unsorted(archs) ==
  [i \in 1..Len(archs) |-> archs[i] \o RealSuffix]
    \o << PtxTargetBase(archs) \o VirtualSuffix >>

\* generate_sass_ptx_arch_list on a non-empty list
generate_sass_ptx_arch_list(archs) ==
  LET sorted_archs == SortedArchs(archs)
      sass_targets == [i \in 1..Len(sorted_archs) |-> sorted_archs[i] \o RealSuffix]
  IN sass_targets \o << PtxTargetBase(sorted_archs) \o VirtualSuffix >>

(***************************************************************************)
(* Inputs of a run: the command line and the environment                   *)
(***************************************************************************)
\* values of the positional argument requested_archs
RequestStrings ==
  { NativeStr,
    << "N", "a", "t", "i", "v", "e" >>,
    AllStr,
    AllMajorStr,
    << "9", "0", "a", ",", "8", "0" >>,
    << "8", "0", " ", "8", "0" >>,
    << "7", "2", " ", "8", "0" >>,
    << "8", "0", ",", " ", "7", "2" >>,
    << " ", ",", " " >> }

\* values of --min-arch: omitted, 0, 80
MinArchValues == { NoneValue, << 0 >>, << 80 >> }

\* what argparse makes of the command line: accepted, rejected, or -h
ParseOutcomes == { "ok", "usage_error", "help" }

CommandLines ==
  [ parse : ParseOutcomes,
    requested_archs : RequestStrings,
    nvcc_path : BOOLEAN,
    min_arch : MinArchValues ]

\* the lines `nvcc -code-ls` may print
CodeLsLines ==
  { << "s", "m", "_", "7", "2" >>,
    << "s", "m", "_", "8", "0" >>,
    << " ", "s", "m", "_", "8", "0" >>,
    << "s", "m", "_", "9", "0", "a" >>,
    << "s", "m", "_", "0" >>,
    << "s", "m", "_" >>,
    << "s", "m", "_", "a", "b" >>,
    << "c", "o", "m", "p", "u", "t", "e", "_", "8", "0" >> }

CodeLsOutputs == { out \in SUBSET CodeLsLines : Cardinality(out) <= MaxLines }

\* how subprocess.run ends: it returns, or raises FileNotFoundError,
\* CalledProcessError, or PermissionError (a path that is not executable)
NvccStatuses == { "ok", "not_found", "failed", "not_executable" }

\* values of platform.machine()
MachineNames ==
  { << "x", "8", "6", "_", "6", "4" >>,
    << "A", "M", "D", "6", "4" >>,
    << "a", "a", "r", "c", "h", "6", "4" >> }

\* the text argparse prints for -h
HelpText == << "u", "s", "a", "g", "e" >>

NoError == [kind |-> "none", arch |-> << >>]

(***************************************************************************)
(* State of a run                                                          *)
(***************************************************************************)
VARIABLES
  pc,                       \* position in main()
  cmdline,                  \* sys.argv as argparse reads it
  calls,                    \* functions of the script invoked so far
  nvcc_status,              \* outcome of subprocess.run
  nvcc_stdout,              \* result.stdout, as its set of lines
  machine,                  \* platform.machine()
  nvcc_supported_archs,
  min_filtered_archs,
  platform_filtered_archs,
  user_archs,
  checked,                  \* number of tokens the validation loop has passed
  target_archs,
  final_archs_list,
  stdout,                   \* the writes to standard output, in order
  error,                    \* the message logged by die(), or the exception
  exit_code                 \* << >> while running, << code >> once exited

vars ==
  << pc, cmdline, calls, nvcc_status, nvcc_stdout, machine, nvcc_supported_archs,
     min_filtered_archs, platform_filtered_archs, user_archs, checked,
     target_archs, final_archs_list, stdout, error, exit_code >>

env == << nvcc_status, nvcc_stdout, machine >>

lists ==
  << nvcc_supported_archs, min_filtered_archs, platform_filtered_archs,
     user_archs, checked, target_archs, final_archs_list >>

Init ==
  /\ pc = "start"
  /\ cmdline \in CommandLines
  /\ calls = {}
  /\ nvcc_status = "not_run"
  /\ nvcc_stdout = {}
  /\ machine = << >>
  /\ nvcc_supported_archs = << >>
  /\ min_filtered_archs = << >>
  /\ platform_filtered_archs = << >>
  /\ user_archs = << >>
  /\ checked = 0
  /\ target_archs = << >>
  /\ final_archs_list = << >>
  /\ stdout = << >>
  /\ error = NoError
  /\ exit_code = << >>

\* sys.exit(code)
Exit(code) ==
  /\ exit_code' = << code >>
  /\ pc' = "exited"

\* die that exits with status 0
die_ExitZero(kind, arch) ==
  /\ error' = [kind |-> kind, arch |-> arch]
  /\ Exit(0)

\* die(msg): log the message and exit with 1
die(kind, arch) ==
  /\ error' = [kind |-> kind, arch |-> arch]
  /\ Exit(1)

\* an exception nobody catches: traceback on stderr, exit status 1
Uncaught(exception) ==
  /\ error' = [kind |-> exception, arch |-> << >>]
  /\ Exit(1)

req_lower == Lower(cmdline.requested_archs)

(***************************************************************************)
(* The steps of main()                                                     *)
(***************************************************************************)
\* parser.parse_args(): a rejected command line exits with status 2 after a
\* usage message on stderr; -h prints the help text on stdout and exits 0
ParseArgs ==
  /\ pc = "start"
  /\ CASE cmdline.parse = "ok" ->
            /\ pc' = "native_check"
            /\ UNCHANGED << stdout, error, exit_code >>
       [] cmdline.parse = "usage_error" ->
            /\ error' = [kind |-> "usage", arch |-> << >>]
            /\ Exit(2)
            /\ UNCHANGED stdout
       [] cmdline.parse = "help" ->
            /\ stdout' = Append(stdout, HelpText)
            /\ Exit(0)
            /\ UNCHANGED error
  /\ UNCHANGED << cmdline, calls, env, lists >>

\* the native check without its early exit
CheckNative_NoExit ==
  /\ pc = "native_check"
  /\ pc' = "locate"
  /\ UNCHANGED << cmdline, calls, env, lists, stdout, error, exit_code >>

\* if req_lower == "native": print("native", end=""); sys.exit(0)
CheckNative ==
  /\ pc = "native_check"
  /\ IF req_lower = NativeStr
     THEN /\ stdout' = Append(stdout, NativeStr)
          /\ Exit(0)
     ELSE /\ pc' = "locate"
          /\ UNCHANGED << stdout, exit_code >>
  /\ UNCHANGED << cmdline, calls, env, lists, error >>

\* the path given with --nvcc-path, else get_nvcc_path(), which returns a
\* path whether or not the file exists (Path.resolve() is not strict)
LocateNvcc ==
  /\ pc = "locate"
  /\ calls' = IF cmdline.nvcc_path THEN calls ELSE calls \cup {"get_nvcc_path"}
  /\ pc' = "probe"
  /\ UNCHANGED << cmdline, env, lists, stdout, error, exit_code >>

\* get_nvcc_archs(nvcc_path)
GetNvccArchs ==
  /\ pc = "probe"
  /\ calls' = calls \cup {"get_nvcc_archs"}
  /\ \E status \in NvccStatuses, out \in CodeLsOutputs :
       /\ status # "ok" => out = {}
       /\ nvcc_status' = status
       /\ nvcc_stdout' = out
       /\ CASE status = "not_found" ->
                 /\ die("nvcc_not_found", << >>)
                 /\ UNCHANGED nvcc_supported_archs
            [] status = "failed" ->
                 /\ die("nvcc_failed", << >>)
                 /\ UNCHANGED nvcc_supported_archs
            [] status = "not_executable" ->
                 /\ Uncaught("PermissionError")
                 /\ UNCHANGED nvcc_supported_archs
            [] status = "ok" ->
                 IF ParseCodeLs(out) = {}
                 THEN /\ die("no_archs_parsed", << >>)
                      /\ UNCHANGED nvcc_supported_archs
                 ELSE /\ nvcc_supported_archs' = SortedArchSet(ParseCodeLs(out))
                      /\ pc' = "min_filter"
                      /\ UNCHANGED << error, exit_code >>
  /\ UNCHANGED << cmdline, machine, min_filtered_archs, platform_filtered_archs,
                  user_archs, checked, target_archs, final_archs_list, stdout >>

\* min_filtered_archs = filter_archs_with_min_arch(nvcc_supported_archs, args.min_arch)
FilterMinArch ==
  /\ pc = "min_filter"
  /\ IF MinArchRaises(nvcc_supported_archs, cmdline.min_arch)
     THEN /\ Uncaught("AttributeError")
          /\ UNCHANGED min_filtered_archs
     ELSE /\ min_filtered_archs' =
               filter_archs_with_min_arch(nvcc_supported_archs, cmdline.min_arch)
          /\ pc' = "platform_filter"
          /\ UNCHANGED << error, exit_code >>
  /\ UNCHANGED << cmdline, calls, env, nvcc_supported_archs, platform_filtered_archs,
                  user_archs, checked, target_archs, final_archs_list, stdout >>

\* platform_filtered_archs = filter_archs_for_platform(min_filtered_archs)
FilterPlatform ==
  /\ pc = "platform_filter"
  /\ \E m \in MachineNames :
       /\ machine' = m
       /\ platform_filtered_archs' = filter_archs_for_platform(min_filtered_archs, m)
  /\ pc' = "dispatch"
  /\ UNCHANGED << cmdline, calls, nvcc_status, nvcc_stdout, nvcc_supported_archs,
                  min_filtered_archs, user_archs, checked, target_archs,
                  final_archs_list, stdout, error, exit_code >>

\* if req_lower == "all": target_archs = platform_filtered_archs
DispatchAll ==
  /\ pc = "dispatch"
  /\ req_lower = AllStr
  /\ target_archs' = platform_filtered_archs
  /\ pc' = "check_empty"
  /\ UNCHANGED << cmdline, calls, env, nvcc_supported_archs, min_filtered_archs,
                  platform_filtered_archs, user_archs, checked, final_archs_list,
                  stdout, error, exit_code >>

\* elif req_lower == "all-major": target_archs = filter_major_archs(...)
DispatchAllMajor ==
  /\ pc = "dispatch"
  /\ req_lower # AllStr
  /\ req_lower = AllMajorStr
  /\ target_archs' = filter_major_archs(platform_filtered_archs)
  /\ pc' = "check_empty"
  /\ UNCHANGED << cmdline, calls, env, nvcc_supported_archs, min_filtered_archs,
                  platform_filtered_archs, user_archs, checked, final_archs_list,
                  stdout, error, exit_code >>

\* else: user_archs = parse_requested_archs(args.requested_archs), and the
\* start of validate_user_archs, which dies on an empty list
DispatchExplicit ==
  /\ pc = "dispatch"
  /\ req_lower # AllStr
  /\ req_lower # AllMajorStr
  /\ user_archs' = parse_requested_archs(cmdline.requested_archs)
  /\ IF user_archs' = << >>
     THEN die("empty_request", << >>)
     ELSE /\ pc' = "validate"
          /\ UNCHANGED << error, exit_code >>
  /\ UNCHANGED << cmdline, calls, env, nvcc_supported_archs, min_filtered_archs,
                  platform_filtered_archs, checked, target_archs, final_archs_list,
                  stdout >>

\* one iteration of the loop of validate_user_archs, and its return after
\* the last token
ValidateArch ==
  /\ pc = "validate"
  /\ LET arch == user_archs[checked + 1]
         verdict == CheckArch(arch, Range(nvcc_supported_archs),
                              Range(min_filtered_archs), Range(platform_filtered_archs))
     IN IF verdict # "ok"
        THEN /\ die(verdict, arch)
             /\ UNCHANGED << checked, target_archs >>
        ELSE /\ checked' = checked + 1
             /\ IF checked + 1 = Len(user_archs)
                THEN /\ target_archs' = SubSeq(user_archs, 1, checked + 1)
                     /\ pc' = "check_empty"
                ELSE /\ pc' = "validate"
                     /\ UNCHANGED target_archs
             /\ UNCHANGED << error, exit_code >>
  /\ UNCHANGED << cmdline, calls, env, nvcc_supported_archs, min_filtered_archs,
                  platform_filtered_archs, user_archs, final_archs_list, stdout >>

\* if not target_archs: die(...)
CheckEmpty ==
  /\ pc = "check_empty"
  /\ IF target_archs = << >>
     THEN die("no_valid_archs", << >>)
     ELSE /\ pc' = "format"
          /\ UNCHANGED << error, exit_code >>
  /\ UNCHANGED << cmdline, calls, env, lists, stdout >>

\* final_archs_list = generate_sass_ptx_arch_list(target_archs)
GenerateSassPtx ==
  /\ pc = "format"
  /\ IF target_archs = << >>
     THEN /\ die("empty_targets", << >>)
          /\ UNCHANGED final_archs_list
     ELSE /\ final_archs_list' = generate_sass_ptx_arch_list(target_archs)
          /\ pc' = "print"
          /\ UNCHANGED << error, exit_code >>
  /\ UNCHANGED << cmdline, calls, env, nvcc_supported_archs, min_filtered_archs,
                  platform_filtered_archs, user_archs, checked, target_archs, stdout >>

\* print(";".join(final_archs_list), end=""), and main() returns
PrintFinal ==
  /\ pc = "print"
  /\ stdout' = Append(stdout, Join(final_archs_list, Semicolon))
  /\ Exit(0)
  /\ UNCHANGED << cmdline, calls, env, lists, error >>

Next ==
  \/ ParseArgs
  \/ CheckNative
  \/ LocateNvcc
  \/ GetNvccArchs
  \/ FilterMinArch
  \/ FilterPlatform
  \/ DispatchAll
  \/ DispatchAllMajor
  \/ DispatchExplicit
  \/ ValidateArch
  \/ CheckEmpty
  \/ GenerateSassPtx
  \/ PrintFinal

Spec == Init /\ [][Next]_vars

\* the run is one sequential process: a step that is enabled is taken
FairSpec == Spec /\ WF_vars(Next)

TypeOK ==
  /\ pc \in { "start", "native_check", "locate", "probe", "min_filter",
              "platform_filter", "dispatch", "validate", "check_empty", "format",
              "print", "exited" }
  /\ cmdline \in CommandLines
  /\ calls \subseteq { "get_nvcc_path", "get_nvcc_archs" }
  /\ exit_code \in { << >>, << 0 >>, << 1 >>, << 2 >> }
  /\ checked \in 0..Len(user_archs)

(***************************************************************************)
(* Vocabulary of the properties                                            *)
(***************************************************************************)
Parsed == cmdline.parse = "ok"

Exited == pc = "exited"

\* the dispatch of main() has produced target_archs
Dispatched == pc \in { "check_empty", "format", "print" }

\* the machine name is one of the desktop x86 names, whatever its case
IsDesktop == Lower(machine) \in { << "x", "8", "6", "_", "6", "4" >>, << "a", "m", "d", "6", "4" >> }

ExcludedIgpus ==
  { << "7", "2" >>, << "8", "7" >>, << "1", "0", "1" >>, << "1", "0", "1", "a" >> }

FatalKinds ==
  { "nvcc_not_found", "nvcc_failed", "no_archs_parsed", "empty_request",
    "not_supported", "below_minimum", "igpu", "no_valid_archs", "empty_targets" }

ValidationKinds == { "not_supported", "below_minimum", "igpu" }

\* entry without its last n characters
DropLast(entry, n) == SubSeq(entry, 1, Len(entry) - n)

\* the identifiers of the -real entries, in order, and the base of the last entry
RealIds == [i \in 1..(Len(final_archs_list) - 1) |-> DropLast(final_archs_list[i], Len(RealSuffix))]

VirtualBase == DropLast(final_archs_list[Len(final_archs_list)], Len(VirtualSuffix))

\* number of positions of seq that hold x
Count(seq, x) == Cardinality({i \in 1..Len(seq) : seq[i] = x})

\* seq is in canonical order: no element's key is less than an earlier one's
CanonicalOrder(seq) ==
  \A i, j \in 1..Len(seq) :
    i < j => ~KeyLess(get_arch_sort_key(seq[j]), get_arch_sort_key(seq[i]))

\* the shape the formatter gives its result: -real entries, then one -virtual
FormatterShape ==
  /\ Len(final_archs_list) = Len(target_archs) + 1
  /\ \A i \in 1..(Len(final_archs_list) - 1) : EndsWith(final_archs_list[i], RealSuffix)
  /\ EndsWith(final_archs_list[Len(final_archs_list)], VirtualSuffix)
  /\ Cardinality({i \in 1..Len(final_archs_list) :
                    EndsWith(final_archs_list[i], VirtualSuffix)}) = 1
  /\ CanonicalOrder(RealIds)
  /\ Range(RealIds) = Range(target_archs)

\* <digits><optional letter>
WellFormedArch(arch) ==
  /\ DigitPrefixLen(arch) >= 1
  /\ \/ Len(arch) = DigitPrefixLen(arch)
     \/ Len(arch) = DigitPrefixLen(arch) + 1 /\ IsAlpha(arch[Len(arch)])

(***************************************************************************)
(* C1                                                                      *)
(***************************************************************************)
\* C1: when the request token is `native`, the run only passes through the
\* argument parsing and the native check, never invokes get_nvcc_path or
\* get_nvcc_archs nor runs nvcc, and ends with the single write `native`
\* and exit code 0, whatever the environment.
C1_NativeShortCircuit ==
  (Parsed /\ cmdline.requested_archs = NativeStr) =>
     /\ pc \in { "start", "native_check", "exited" }
     /\ calls = {}
     /\ nvcc_status = "not_run"
     /\ error = NoError
     /\ IF Exited THEN stdout = << NativeStr >> /\ exit_code = << 0 >>
                  ELSE stdout = << >> /\ exit_code = << >>

C1_Witness ==
  /\ Exited
  /\ Parsed
  /\ cmdline.requested_archs = NativeStr
  /\ stdout = << NativeStr >>
  /\ exit_code = << 0 >>

(***************************************************************************)
(* C2                                                                      *)
(***************************************************************************)
\* the two outcomes, each fatal condition leading to the second one, and
\* nothing running after the exit
TwoOutcomes ==
  /\ Exited =>
       \/ /\ exit_code = << 0 >>
          /\ Len(stdout) = 1
          /\ \/ stdout[1] = NativeStr
             \/ final_archs_list # << >> /\ stdout[1] = Join(final_archs_list, Semicolon)
       \/ /\ exit_code = << 1 >>
          /\ stdout = << >>
  /\ error.kind \in FatalKinds => Exited /\ exit_code = << 1 >> /\ stdout = << >>
  /\ Exited <=> exit_code # << >>
  /\ Exited => ~ENABLED Next

\* C2 as stated: every run of main ends with exit code 0 and exactly one
\* write to standard output (`native` or the joined target list), or with
\* exit code 1 and nothing written; every fatal condition gives the second
\* outcome and no step runs after it.
C2_Original == TwoOutcomes

\* C2 as amended: the same, for every run whose command line the argument
\* parser accepts (a rejected command line exits with code 2, and -h writes
\* the help text to standard output and exits with code 0).
C2_Outcomes == Parsed => TwoOutcomes

C2_Witness ==
  /\ Exited
  /\ Parsed
  /\ error.kind = "no_valid_archs"
  /\ exit_code = << 1 >>
  /\ stdout = << >>

(***************************************************************************)
(* C3                                                                      *)
(***************************************************************************)
PassesAll(arch) ==
  /\ arch \in Range(nvcc_supported_archs)
  /\ arch \in Range(min_filtered_archs)
  /\ arch \in Range(platform_filtered_archs)

\* C3: the validation stops at the first token of the request that fails a
\* check, reports the first failing check in the order supported, minimum,
\* platform (so a token below the minimum that is also an excluded iGPU is
\* reported as below the minimum), checks no later token, and returns the
\* token list verbatim when every token passes.
C3_FirstFailure ==
  /\ error.kind \in ValidationKinds =>
       /\ Exited
       /\ checked < Len(user_archs)
       /\ error.arch = user_archs[checked + 1]
       /\ \A j \in 1..checked : PassesAll(user_archs[j])
       /\ ~PassesAll(error.arch)
       /\ error.kind = "not_supported" <=> error.arch \notin Range(nvcc_supported_archs)
       /\ error.kind = "below_minimum" <=>
            /\ error.arch \in Range(nvcc_supported_archs)
            /\ error.arch \notin Range(min_filtered_archs)
       /\ target_archs = << >>
  /\ (user_archs # << >> /\ (Dispatched \/ (Exited /\ error.kind \notin ValidationKinds))) =>
       /\ target_archs = user_archs
       /\ checked = Len(user_archs)
       /\ \A j \in 1..Len(user_archs) : PassesAll(user_archs[j])
  /\ pc = "validate" =>
       /\ checked < Len(user_archs)
       /\ \A j \in 1..checked : PassesAll(user_archs[j])

C3_Witness ==
  /\ Exited
  /\ error.kind = "below_minimum"
  /\ error.arch \in ExcludedIgpus
  /\ IsDesktop
  /\ checked + 1 < Len(user_archs)

(***************************************************************************)
(* C4                                                                      *)
(***************************************************************************)
C4_Expected ==
  SelectSeq(nvcc_supported_archs,
            LAMBDA arch :
              /\ MinArchDisabled(cmdline.min_arch) \/ NumericPrefix(arch) >= cmdline.min_arch[1]
              /\ IsDesktop => arch \notin ExcludedIgpus)

\* C4: for request `all` the target list is the supported identifiers, in
\* the order of the Supported Set, that meet the minimum and, on a desktop
\* x86 machine only, are none of 72, 87, 101, 101a.
C4_AllTargets == (Dispatched /\ req_lower = AllStr) => target_archs = C4_Expected

C4_Witness ==
  /\ pc = "format"
  /\ req_lower = AllStr
  /\ machine = << "A", "M", "D", "6", "4" >>
  /\ << "7", "2" >> \in Range(min_filtered_archs)
  /\ << "7", "2" >> \notin Range(target_archs)

(***************************************************************************)
(* C5                                                                      *)
(***************************************************************************)
\* C5 as stated: for every non-empty target list the formatter returns the
\* -real entries in canonical order followed by a single last -virtual
\* entry, and every identifier of the input appears exactly once as a -real
\* entry.
C5_Original ==
  final_archs_list # << >> =>
    /\ FormatterShape
    /\ \A arch \in Range(target_archs) : Count(RealIds, arch) = 1

\* C5 as amended: the same, except that every identifier appears as a -real
\* entry as many times as it occurs in the input (exactly once when the
\* input has no duplicates: an explicit request may repeat a token).
C5_RealEntries ==
  final_archs_list # << >> =>
    /\ FormatterShape
    /\ \A arch \in Range(target_archs) : Count(RealIds, arch) = Count(target_archs, arch)

C5_Witness ==
  /\ pc = "print"
  /\ target_archs = << << "9", "0", "a" >>, << "8", "0" >> >>
  /\ final_archs_list =
       << << "8", "0", "-", "r", "e", "a", "l" >>,
          << "9", "0", "a", "-", "r", "e", "a", "l" >>,
          << "8", "0", "-", "v", "i", "r", "t", "u", "a", "l" >> >>

(***************************************************************************)
(* C6                                                                      *)
(***************************************************************************)
PlainTargets == {arch \in Range(target_archs) : ~EndsInLetter(arch)}

\* C6: the base of the -virtual entry is an identifier of the target list
\* without trailing letter whose numeric prefix is the highest among those;
\* when every identifier ends in a letter it is the last identifier in
\* canonical order.  It is always one of the -real identifiers.
C6_VirtualBase ==
  final_archs_list # << >> =>
    /\ VirtualBase \in Range(RealIds)
    /\ PlainTargets # {} =>
         /\ VirtualBase \in PlainTargets
         /\ \A arch \in PlainTargets :
              get_arch_sort_key(arch)[1] <= get_arch_sort_key(VirtualBase)[1]
    /\ PlainTargets = {} => VirtualBase = RealIds[Len(RealIds)]

(***************************************************************************)
(* C7                                                                      *)
(***************************************************************************)
AllDigits(arch) == \A i \in 1..Len(arch) : IsDigit(arch[i])

EndsInZero(arch) == arch # << >> /\ arch[Len(arch)] = "0"

\* C7 as stated: for request `all-major` the target list is the identifiers
\* of the `all` result that consist of digits only and end in 0, in order.
C7_Original ==
  (Dispatched /\ req_lower = AllMajorStr) =>
    target_archs = SelectSeq(C4_Expected, LAMBDA arch : AllDigits(arch) /\ EndsInZero(arch))

\* C7 as amended: ... that consist of two or more digits and end in 0 (the
\* one-character identifier 0 is dropped).
C7_MajorTargets ==
  (Dispatched /\ req_lower = AllMajorStr) =>
    target_archs = SelectSeq(C4_Expected,
                             LAMBDA arch : AllDigits(arch) /\ EndsInZero(arch) /\ Len(arch) >= 2)

C7_Witness ==
  /\ pc = "format"
  /\ req_lower = AllMajorStr
  /\ << "0" >> \in Range(platform_filtered_archs)
  /\ << "9", "0", "a" >> \in Range(platform_filtered_archs)
  /\ target_archs = << << "8", "0" >> >>

(***************************************************************************)
(* C8                                                                      *)
(***************************************************************************)
\* the identifiers of the output lines of the form sm_<digits><optional letter>
WellFormedReported ==
  {arch \in ParseCodeLs(nvcc_stdout) : WellFormedArch(arch)}

\* C8: every element of the Supported Set is a well-formed identifier taken
\* from a line sm_<digits><optional letter>, and the lines of any other form
\* contribute nothing.
C8_WellFormedSupported ==
  nvcc_supported_archs # << >> =>
    /\ \A arch \in Range(nvcc_supported_archs) : WellFormedArch(arch)
    /\ Range(nvcc_supported_archs) = WellFormedReported

(***************************************************************************)
(* C9                                                                      *)
(***************************************************************************)
\* filter_archs_with_min_arch has been called on the Supported Set
MinFilterCalled == nvcc_supported_archs # << >> /\ pc # "min_filter"

C9_Expected ==
  IF MinArchDisabled(cmdline.min_arch) THEN nvcc_supported_archs
  ELSE SelectSeq(nvcc_supported_archs,
                 LAMBDA arch : HasNumericPrefix(arch)
                               /\ NumericPrefix(arch) >= cmdline.min_arch[1])

\* C9: filter_archs_with_min_arch returns its input when the minimum is
\* absent or <= 0, otherwise the identifiers whose numeric prefix is >= the
\* minimum, in input order; applying it again changes nothing.
C9_MinFilter ==
  MinFilterCalled =>
    /\ error.kind # "AttributeError"
    /\ min_filtered_archs = C9_Expected
    /\ ~MinArchRaises(min_filtered_archs, cmdline.min_arch)
    /\ filter_archs_with_min_arch(min_filtered_archs, cmdline.min_arch) = min_filtered_archs

(***************************************************************************)
(* C10                                                                     *)
(***************************************************************************)
OutputIds == Range(RealIds) \cup { VirtualBase }

\* C10: a run that exits 0 on a request other than `native` prints only
\* identifiers of the platform-filtered set, which is inside the
\* minimum-filtered set, which is inside the Supported Set reported by nvcc:
\* none below the minimum, none of the excluded iGPUs on a desktop x86
\* machine; and the formatter never gets an empty target list.
C10_OutputWithinFilters ==
  /\ (Exited /\ Parsed /\ exit_code = << 0 >> /\ req_lower # NativeStr) =>
       /\ final_archs_list # << >>
       /\ stdout = << Join(final_archs_list, Semicolon) >>
       /\ OutputIds \subseteq Range(platform_filtered_archs)
       /\ Range(platform_filtered_archs) \subseteq Range(min_filtered_archs)
       /\ Range(min_filtered_archs) \subseteq Range(nvcc_supported_archs)
       /\ \A arch \in OutputIds : \E l \in nvcc_stdout : Strip(l) = SmPrefix \o arch
       /\ ~MinArchDisabled(cmdline.min_arch) =>
            \A arch \in OutputIds :
              HasNumericPrefix(arch) /\ NumericPrefix(arch) >= cmdline.min_arch[1]
       /\ IsDesktop => OutputIds \cap ExcludedIgpus = {}
  /\ pc = "format" => target_archs # << >>
  /\ error.kind # "empty_targets"

C10_Witness ==
  /\ Exited
  /\ exit_code = << 0 >>
  /\ user_archs = << << "9", "0", "a" >>, << "8", "0" >> >>
  /\ cmdline.min_arch = << 80 >>
  /\ IsDesktop
  /\ << "7", "2" >> \in Range(nvcc_supported_archs)
====
